---- MODULE Spec2Model ----
(***************************************************************************)
(* The FastBets Lookup widget (src/assets/app.js and its earlier variant   *)
(* src/unnamed/part_000) as a state machine.  The page has one UI thread:  *)
(* every handler runs to its next await without interleaving, so each      *)
(* synchronous segment of a handler is one action.  The suspension points  *)
(* are client.get (the ticket field read) and client.request (the GET).    *)
(* The deferred resize only asks the host to resize the iframe; the iframe *)
(* size is not part of the state modelled here.                            *)
(***************************************************************************)
EXTENDS Integers, Sequences, FiniteSets, TLC

VARIABLES
    variant,        \* which of the two files is deployed
    field,          \* host side: the ticket custom field
    zafBound,       \* the ZAF listeners (app.activated, submit.done, changed) are registered
    input,          \* ui.input.value
    results,        \* children of the results container
    error,          \* error.textContent
    confirmDisplay, \* confirmBtn.style.display
    fetchDisabled,  \* fetchBtn.disabled
    requests,       \* client.request calls awaiting their response
    reads,          \* client.get calls awaiting their response
    lastEvent,      \* the handler or continuation that ran last
    displayed       \* history: the request and response the results were rendered from

vars == <<variant, field, zafBound, input, results, error, confirmDisplay,
          fetchDisabled, requests, reads, lastEvent, displayed>>

ui == <<input, results, error, confirmDisplay, fetchDisabled>>

-----------------------------------------------------------------------------
(* Bounds *)

\* client.get calls that may be pending at once
MaxReads == 1

\* client.request calls that may be pending at once (the code never exceeds one)
MaxRequests == 2

-----------------------------------------------------------------------------
(* Strings the operator or the host can supply: sequences of characters.   *)

Space == " "

\* empty, whitespace only, plain, padded on both sides, one needing escaping
Fastcodes == { <<>>, <<Space>>, <<"a">>, <<Space, "a", Space>>, <<"a", "&">> }

\* the field is absent (null) or holds a string
Absent == [present |-> FALSE, val |-> <<>>]

Present(s) == [present |-> TRUE, val |-> s]

FieldValues == {Absent} \cup {Present(s) : s \in Fastcodes}

RECURSIVE TrimStart(_)
TrimStart(s) ==
    IF s # <<>> /\ Head(s) = Space THEN TrimStart(Tail(s)) ELSE s

RECURSIVE TrimEnd(_)
TrimEnd(s) ==
    IF s # <<>> /\ s[Len(s)] = Space THEN TrimEnd(SubSeq(s, 1, Len(s) - 1)) ELSE s

\* String.prototype.trim
Trim(s) == TrimEnd(TrimStart(s))

\* encodeURIComponent, one character
EncodeChar(c) ==
    CASE c = Space -> <<"%", "2", "0">>
      [] c = "&"   -> <<"%", "2", "6">>
      [] OTHER     -> <<c>>

RECURSIVE EncodeURIComponent(_)
EncodeURIComponent(s) ==
    IF s = <<>> THEN <<>> ELSE EncodeChar(Head(s)) \o EncodeURIComponent(Tail(s))

Endpoint ==
    "https://t9tjcj1rud.execute-api.us-east-1.amazonaws.com/sportsbet/getFastBets?fastcode="

\* the url built without escaping the code
LookupUrlUnescaped(code) == <<Endpoint>> \o code

\* the url of the GET: the endpoint followed by the encoded code
LookupUrl(code) == <<Endpoint>> \o EncodeURIComponent(code)

-----------------------------------------------------------------------------
(* JSON values, tagged by type.  A number or boolean carries its literal.  *)

JNull == [t |-> "null"]

JNum(lit) == [t |-> "num", v |-> lit]

JStr(str) == [t |-> "str", v |-> str]

JBool(lit) == [t |-> "bool", v |-> lit]

\* kv: the own keys in enumeration order, each with its value
JObj(kv) == [t |-> "obj", kv |-> kv]

JArr(items) == [t |-> "arr", items |-> items]

\* JavaScript truthiness
Truthy(v) ==
    CASE v.t = "null" -> FALSE
      [] v.t = "bool" -> v.v = "true"
      [] v.t = "num"  -> v.v # "0"
      [] v.t = "str"  -> v.v # ""
      [] OTHER        -> TRUE

\* Array.isArray(value) || (value && typeof value === 'object')
IsComplex(v) == v.t \in {"arr", "obj"}

\* String(value) of a scalar
PlainText(v) == IF v.t = "null" THEN "null" ELSE v.v

Indent == "  "

RECURSIVE Stringify(_, _)
RECURSIVE StringifyMembers(_, _, _)

\* the members of an array (keyed = FALSE) or object, one per line
StringifyMembers(ms, keyed, ind) ==
    IF ms = <<>> THEN ""
    ELSE LET m == Head(ms)
             one == IF keyed
                    THEN ind \o "\"" \o m[1] \o "\": " \o Stringify(m[2], ind)
                    ELSE ind \o Stringify(m, ind)
         IN  one \o (IF Tail(ms) = <<>> THEN "" ELSE ",\n")
                 \o StringifyMembers(Tail(ms), keyed, ind)

\* JSON.stringify(value, null, 2), at the current indentation
Stringify(v, ind) ==
    CASE v.t = "null" -> "null"
      [] v.t = "str"  -> "\"" \o v.v \o "\""
      [] v.t = "arr"  ->
            IF v.items = <<>> THEN "[]"
            ELSE "[\n" \o StringifyMembers(v.items, FALSE, ind \o Indent)
                       \o "\n" \o ind \o "]"
      [] v.t = "obj"  ->
            IF v.kv = <<>> THEN "{}"
            ELSE "{\n" \o StringifyMembers(v.kv, TRUE, ind \o Indent)
                       \o "\n" \o ind \o "}"
      [] OTHER        -> v.v

\* Object.keys(obj) with obj[key]: none for a number or a boolean
OwnEntries(v) ==
    CASE v.t = "obj" -> v.kv
      [] v.t = "arr" -> [i \in 1..Len(v.items) |-> <<ToString(i - 1), v.items[i]>>]
      [] v.t \in {"num", "bool"} -> <<>>

-----------------------------------------------------------------------------
(* DOM construction *)

\* a string child: h() drops falsy children, the empty string among them
Text(str) == IF str = "" THEN <<>> ELSE <<[text |-> str]>>

\* h(tag, { class }, children)
H(tag, class, children) == [tag |-> tag, class |-> class, children |-> children]

\* a card that serializes every value, scalars too
CardAlwaysSerialized(key, value) ==
    H("div", "attribute-card",
      << H("div", "attribute-key", Text(key)),
         H("pre", "attribute-value", Text(Stringify(value, ""))) >>)

\* one card: the key label and the value region
Card(key, value) ==
    H("div", "attribute-card",
      << H("div", "attribute-key", Text(key)),
         IF IsComplex(value)
         THEN H("pre", "attribute-value", Text(Stringify(value, "")))
         ELSE H("div", "attribute-value", Text(PlainText(value))) >>)

NoAttributes == H("div", "no-data-message", Text("No attributes to display."))

RenderKV(obj) ==
    IF ~Truthy(obj) \/ (obj.t = "obj" /\ Len(OwnEntries(obj)) = 0)
    THEN NoAttributes
    ELSE LET es == OwnEntries(obj)
         IN  H("div", "attributes-container",
               [i \in 1..Len(es) |-> Card(es[i][1], es[i][2])])

\* the indicator's first line is written here with three dots for its ellipsis
LoadingNode ==
    H("div", "loading-container",
      << H("div", "", Text("Loading...")),
         H("p", "", Text("Fetching Fast Bets for your fastcode")) >>)

NoResults == H("div", "no-data-message", Text("No results."))

RECURSIVE RenderItems(_, _)
\* data.forEach((item, idx) => ...), from index idx (0-based)
RenderItems(items, idx) ==
    IF items = <<>> THEN <<>>
    ELSE << H("div", "label", Text("Item " \o ToString(idx + 1))),
            RenderKV(Head(items)) >> \o RenderItems(Tail(items), idx + 1)

\* the render without the branch for an empty list
RenderDataNoEmptyBranch(data) ==
    IF data.t = "arr"
    THEN RenderItems(data.items, 0)
    ELSE IF Truthy(data) /\ data.t = "obj"
    THEN <<RenderKV(data)>>
    ELSE << H("div", "attributes-container",
              << H("div", "attribute-card",
                   << H("div", "attribute-key", Text("value")),
                      H("pre", "attribute-value", Text(Stringify(data, ""))) >>) >>) >>

\* what runFetch appends to the results container for a response
RenderData(data) ==
    IF data.t = "arr"
    THEN IF Len(data.items) = 0 THEN <<NoResults>> ELSE RenderItems(data.items, 0)
    ELSE IF Truthy(data) /\ data.t = "obj"
    THEN <<RenderKV(data)>>
    ELSE << H("div", "attributes-container",
              << H("div", "attribute-card",
                   << H("div", "attribute-key", Text("value")),
                      H("pre", "attribute-value", Text(Stringify(data, ""))) >>) >>) >>

\* responses of the lookup endpoint: a list of records, a record, a scalar
Payloads ==
    { JArr(<<>>),
      JObj(<<>>),
      JObj(<< <<"a", JStr("1")>>, <<"b", JObj(<< <<"c", JNum("2")>> >>)>> >>),
      JArr(<< JObj(<< <<"market", JStr("win")>>, <<"stake", JNum("0")>> >>), JNull >>),
      JArr(<< JNum("0"), JNum("7"), JArr(<< JStr("x") >>) >>),
      JNull }

\* err.responseText of a failed request; "" stands for none
ResponseTexts == { "", "Not found" }

-----------------------------------------------------------------------------
(* The lookup flow: runFetch and the form's submit handler *)

\* the results container holds no render of a response
NothingDisplayed == [shown |-> FALSE]

RemoveAt(seq, i) == SubSeq(seq, 1, i - 1) \o SubSeq(seq, i + 1, Len(seq))

ValidationMessage == "Please enter a fastcode."

\* the input passed on without the trim
SubmittedCodeUntrimmed == input

\* the code the submit handler passes to runFetch
SubmittedCode == Trim(input)

\* the previous render left in place on entry
ResultsLeftOnEntry == results

\* results.innerHTML = '' on entry to runFetch
ResultsOnEntry == <<>>

\* the previous error text left in place on entry
ErrorLeftOnEntry == error

\* error.textContent = '' on entry to runFetch
ErrorOnEntry == ""

\* the confirm button left as it was on entry
ConfirmLeftOnEntry == confirmDisplay

\* confirmBtn.style.display = 'none' on entry to runFetch
ConfirmOnEntry == "none"

\* the fetch button left as it was while loading
DisabledLeftWhileLoading == fetchDisabled

\* fetchBtn.disabled = true before the request is issued
DisabledWhileLoading == TRUE

\* the request issued without the loading indicator
ResultsWithoutLoading == ResultsOnEntry

\* the results container once the loading indicator is appended
ResultsLoading == ResultsOnEntry \o <<LoadingNode>>

\* the client.request call
LookupRequest(code) == [type |-> "GET", url |-> LookupUrl(code)]

\* the loading indicator left in place under the render
ResultsLeftBeforeRender == results

\* results.innerHTML = '' once the response has arrived
ResultsBeforeRender == <<>>

\* the results container after the try block has rendered the response
ResultsRendered(data) == ResultsBeforeRender \o RenderData(data)

\* confirmBtn.style.display after a successful render
ConfirmAfterRender == "inline-flex"

\* the results container after the catch block
ResultsAfterFailure == results

\* error.textContent set by the catch block
FailureMessage(responseText) ==
    IF variant = "app_js"
    THEN "Request failed: " \o
            (IF responseText # "" THEN responseText ELSE "An unknown error occurred.")
    ELSE "Request failed. " \o responseText

\* confirmBtn.style.display set by the catch block
ConfirmAfterFailure == "none"

\* the fetch button left as it was once the request has settled
DisabledLeftAfterSettle == fetchDisabled

\* fetchBtn.disabled = false in the finally block
DisabledAfterSettle == FALSE

\* The operator edits the input element.
UserTypes(s) ==
    /\ input' = s
    /\ lastEvent' = "type"
    /\ UNCHANGED <<variant, field, zafBound, results, error, confirmDisplay,
                   fetchDisabled, requests, reads, displayed>>

\* The form's submit event: fetchBtn is the form's only submit button, and
\* the browser submits a form neither by a click on a disabled button nor by
\* Enter while that button is disabled.  runFetch runs up to its await.
Submit ==
    /\ ~fetchDisabled
    /\ Len(requests) < MaxRequests
    /\ LET code == SubmittedCode
       IN  IF code = <<>>
           THEN /\ error' = ValidationMessage
                /\ results' = ResultsOnEntry
                /\ confirmDisplay' = ConfirmOnEntry
                /\ UNCHANGED <<fetchDisabled, requests>>
           ELSE /\ error' = ErrorOnEntry
                /\ confirmDisplay' = ConfirmOnEntry
                /\ fetchDisabled' = DisabledWhileLoading
                /\ results' = ResultsLoading
                /\ requests' = Append(requests, LookupRequest(code))
    /\ displayed' = NothingDisplayed
    /\ lastEvent' = "submit"
    /\ UNCHANGED <<variant, field, zafBound, input, reads>>

\* a continuation that drops the response of a request the input has moved on from
RequestResolvesIfCurrent(i, data) ==
    /\ i \in DOMAIN requests
    /\ requests' = RemoveAt(requests, i)
    /\ IF requests[i].url = LookupUrl(Trim(input))
       THEN /\ results' = ResultsRendered(data)
            /\ confirmDisplay' = ConfirmAfterRender
            /\ displayed' = [shown |-> TRUE, request |-> requests[i], data |-> data]
       ELSE UNCHANGED <<results, confirmDisplay, displayed>>
    /\ fetchDisabled' = DisabledAfterSettle
    /\ lastEvent' = "resolved"
    /\ UNCHANGED <<variant, field, zafBound, input, error, reads>>

\* client.request resolves with data: the rest of the try block, then finally.
RequestResolves(i, data) ==
    /\ i \in DOMAIN requests
    /\ requests' = RemoveAt(requests, i)
    /\ results' = ResultsRendered(data)
    /\ confirmDisplay' = ConfirmAfterRender
    /\ fetchDisabled' = DisabledAfterSettle
    /\ displayed' = [shown |-> TRUE, request |-> requests[i], data |-> data]
    /\ lastEvent' = "resolved"
    /\ UNCHANGED <<variant, field, zafBound, input, error, reads>>

\* client.request rejects: the catch block, then finally.
RequestRejects(i, responseText) ==
    /\ i \in DOMAIN requests
    /\ requests' = RemoveAt(requests, i)
    /\ results' = ResultsAfterFailure
    /\ error' = FailureMessage(responseText)
    /\ confirmDisplay' = ConfirmAfterFailure
    /\ fetchDisabled' = DisabledAfterSettle
    /\ lastEvent' = "rejected"
    /\ UNCHANGED <<variant, field, zafBound, input, reads, displayed>>

\* the elements the handlers read and write, as one value
UiState ==
    [input |-> input, results |-> results, error |-> error,
     confirmDisplay |-> confirmDisplay, fetchDisabled |-> fetchDisabled]

\* a reset that toggles the confirm button instead of hiding it
ConfirmResetToggling(u) ==
    [u EXCEPT !.input = <<>>, !.results = <<>>, !.error = "",
              !.confirmDisplay = IF @ = "none" THEN "inline-flex" ELSE "none"]

\* the confirm click handler's four assignments
ConfirmReset(u) ==
    [u EXCEPT !.input = <<>>, !.results = <<>>, !.error = "",
              !.confirmDisplay = "none"]

\* A click on the confirm button, which is clickable only while displayed.
ConfirmClick ==
    /\ confirmDisplay # "none"
    /\ LET u == ConfirmReset(UiState)
       IN  /\ input' = u.input
           /\ results' = u.results
           /\ error' = u.error
           /\ confirmDisplay' = u.confirmDisplay
           /\ fetchDisabled' = u.fetchDisabled
    /\ displayed' = NothingDisplayed
    /\ lastEvent' = "confirm"
    /\ UNCHANGED <<variant, field, zafBound, requests, reads>>

-----------------------------------------------------------------------------
(* Ticket sync: the field read and the host events *)

\* resp[key] || ''
GetFastcodeFromTicket(value) == IF value.present THEN value.val ELSE <<>>

\* the client.get call, answered from the ticket as it is when the call is made
FieldRead(kind) == [kind |-> kind, value |-> field]

\* init: if (initialFastcode) ui.input.value = initialFastcode
InputAfterInitialRead(fc) == IF fc # <<>> THEN fc ELSE input

\* the sync writing whatever it read, the empty string too
InputAfterSyncUnguarded(fc) == fc

\* syncFastcodeFromTicket: if (fc && fc !== ui.input.value) ui.input.value = fc
InputAfterSync(fc) == IF fc # <<>> /\ fc # input THEN fc ELSE input

\* the new value passed on without the trim
ChangedValueUntrimmed(newValue) ==
    IF newValue.present THEN newValue.val ELSE <<>>

\* e && e.newValue ? String(e.newValue).trim() : ''
ChangedValue(newValue) ==
    IF newValue.present /\ newValue.val # <<>> THEN Trim(newValue.val) ELSE <<>>

\* the field-change callback: ui.input.value = value
InputAfterChange(value) == value

\* the host event app.activated
AppActivated ==
    /\ zafBound
    /\ Len(reads) < MaxReads
    /\ reads' = Append(reads, FieldRead("sync"))
    /\ lastEvent' = "activated"
    /\ UNCHANGED <<variant, field, zafBound, ui, requests, displayed>>

\* The ticket is saved, its triggers may rewrite the field, and the host
\* raises ticket.submit.done.
TicketSubmitDone(v) ==
    /\ zafBound
    /\ Len(reads) < MaxReads
    /\ field' = v
    /\ reads' = Append(reads, [kind |-> "sync", value |-> v])
    /\ lastEvent' = "submitDone"
    /\ UNCHANGED <<variant, zafBound, ui, requests, displayed>>

\* the field-change callback with its auto-fetch enabled:
\* if (value) await runFetch({ code: value, ...ui })
FieldChangedAutoFetch(v) ==
    /\ field' = v
    /\ input' = IF zafBound THEN InputAfterChange(ChangedValue(v)) ELSE input
    /\ IF zafBound /\ ChangedValue(v) # <<>> /\ Len(requests) < MaxRequests
       THEN /\ error' = ErrorOnEntry
            /\ confirmDisplay' = ConfirmOnEntry
            /\ fetchDisabled' = DisabledWhileLoading
            /\ results' = ResultsLoading
            /\ requests' = Append(requests, LookupRequest(ChangedValue(v)))
            /\ displayed' = NothingDisplayed
       ELSE UNCHANGED <<error, confirmDisplay, fetchDisabled, results, requests,
                        displayed>>
    /\ lastEvent' = "changed"
    /\ UNCHANGED <<variant, zafBound, reads>>

\* The agent edits the field in the ticket form; the host raises
\* ticket.<field>.changed, heard once the listener is registered.
FieldChanged(v) ==
    /\ field' = v
    /\ input' = IF zafBound THEN InputAfterChange(ChangedValue(v)) ELSE input
    /\ lastEvent' = "changed"
    /\ UNCHANGED <<variant, zafBound, results, error, confirmDisplay,
                   fetchDisabled, requests, reads, displayed>>

\* client.get resolves.  In part_000 init registers the ZAF listeners only
\* after its own read has settled.
ReadResolves(i) ==
    /\ i \in DOMAIN reads
    /\ LET r  == reads[i]
           fc == GetFastcodeFromTicket(r.value)
       IN  input' = IF r.kind = "init" THEN InputAfterInitialRead(fc)
                    ELSE InputAfterSync(fc)
    /\ zafBound' = (zafBound \/ reads[i].kind = "init")
    /\ reads' = RemoveAt(reads, i)
    /\ lastEvent' = "readResolved"
    /\ UNCHANGED <<variant, field, results, error, confirmDisplay,
                   fetchDisabled, requests, displayed>>

\* a rejection no catch block handles: init ends before it registers the listeners
ReadRejectsUncaught(i) ==
    /\ i \in DOMAIN reads
    /\ reads' = RemoveAt(reads, i)
    /\ lastEvent' = "readRejected"
    /\ UNCHANGED <<variant, field, zafBound, ui, requests, displayed>>

\* client.get rejects: the catch block only logs.
ReadRejects(i) ==
    /\ i \in DOMAIN reads
    /\ zafBound' = (zafBound \/ reads[i].kind = "init")
    /\ reads' = RemoveAt(reads, i)
    /\ lastEvent' = "readRejected"
    /\ UNCHANGED <<variant, field, ui, requests, displayed>>

-----------------------------------------------------------------------------
(* The specification *)

Variants == {"app_js", "part_000"}

\* DOMContentLoaded: init has built the UI, bound the handlers it binds
\* before its first await, and issued the initial field read.
Init ==
    /\ variant \in Variants
    /\ field \in FieldValues
    /\ zafBound = (variant = "app_js")
    /\ input = <<>>
    /\ results = <<>>
    /\ error = ""
    /\ confirmDisplay = "none"
    /\ fetchDisabled = FALSE
    /\ requests = <<>>
    /\ reads = <<FieldRead("init")>>
    /\ lastEvent = "load"
    /\ displayed = NothingDisplayed

RequestSettles ==
    \E i \in 1..MaxRequests :
        \/ \E data \in Payloads : RequestResolves(i, data)
        \/ \E responseText \in ResponseTexts : RequestRejects(i, responseText)

Next ==
    \/ \E s \in Fastcodes : UserTypes(s)
    \/ Submit
    \/ RequestSettles
    \/ ConfirmClick
    \/ AppActivated
    \/ \E v \in FieldValues : TicketSubmitDone(v)
    \/ \E v \in FieldValues : FieldChanged(v)
    \/ \E i \in 1..MaxReads : ReadResolves(i)
    \/ \E i \in 1..MaxReads : ReadRejects(i)

Spec == Init /\ [][Next]_vars

\* The host's proxy answers every request it was given: there is no timeout
\* in the widget, so only the network settling a request ends Loading.
LiveSpec == Spec /\ WF_vars(RequestSettles)

-----------------------------------------------------------------------------
(* Vocabulary of the properties, stated without the operators of the model *)

\* s is empty or holds only whitespace
Blank(s) == \A i \in DOMAIN s : s[i] = Space

\* t is s without its leading and trailing whitespace
IsTrimOf(t, s) ==
    /\ t = <<>> \/ (t[1] # Space /\ t[Len(t)] # Space)
    /\ \E a \in 0..Len(s) :
          /\ a + Len(t) <= Len(s)
          /\ SubSeq(s, a + 1, a + Len(t)) = t
          /\ Blank(SubSeq(s, 1, a))
          /\ Blank(SubSeq(s, a + Len(t) + 1, Len(s)))

\* characters a query parameter may not hold unescaped
Reserved == {Space, "&", "=", "?", "#"}

RECURSIVE PercentDecode(_)
PercentDecode(p) ==
    IF p = <<>> THEN <<>>
    ELSE IF Head(p) = "%" /\ Len(p) >= 3
    THEN LET hex == SubSeq(p, 2, 3)
             c   == CASE hex = <<"2", "0">> -> Space
                      [] hex = <<"2", "6">> -> "&"
                      [] OTHER -> "?"
         IN  <<c>> \o PercentDecode(SubSeq(p, 4, Len(p)))
    ELSE <<Head(p)>> \o PercentDecode(Tail(p))

HasLoading(nodes) == \E i \in DOMAIN nodes : nodes[i] = LoadingNode

Hidden == confirmDisplay = "none"

\* a lookup ended in failure: validation of an empty code, or a rejected request
FailedLookup(ev, inp) == ev = "rejected" \/ (ev = "submit" /\ Blank(inp))

------------------------------------------------------------------------IsElement(n) == "class" \in DOMAIN n

RECURSIVE CountCards(_)
\* the attribute cards among the nodes and their descendants
CountCards(nodes) ==
    IF nodes = <<>> THEN 0
    ELSE LET n == Head(nodes)
         IN  (IF IsElement(n)
              THEN (IF n.class = "attribute-card" THEN 1 ELSE 0) + CountCards(n.children)
              ELSE 0) + CountCards(Tail(nodes))

\* the text of an element whose only child is a text node; "" when it has none
TextOf(n) == IF n.children = <<>> THEN "" ELSE n.children[1].text

-----
(* C1: a submit with empty or whitespace-only input issues no request and  *)
(* leaves the fixed validation message in the error region, the results    *)
(* region empty and the confirm control hidden.                            *)

C1_EmptyInputIsRejectedLocally ==
    [][(lastEvent' = "submit" /\ Blank(input)) =>
            /\ requests' = requests
            /\ error' = "Please enter a fastcode."
            /\ results' = <<>>
            /\ confirmDisplay' = "none"]_vars

C1_Witness ==
    /\ lastEvent = "submit"
    /\ input = <<Space>>
    /\ error = "Please enter a fastcode."
    /\ requests = <<>>

(* C2: a submit with a non-empty trimmed input issues exactly one GET whose *)
(* fastcode parameter is the trimmed input, percent-encoded; no other step  *)
(* issues a request.                                                        *)

C2_OneGetWithTrimmedEncodedCode ==
    [][IF lastEvent' = "submit" /\ ~Blank(input)
       THEN /\ Len(requests') = Len(requests) + 1
            /\ SubSeq(requests', 1, Len(requests)) = requests
            /\ LET req == requests'[Len(requests')]
               IN  /\ req.type = "GET"
                   /\ Head(req.url) = Endpoint
                   /\ \A i \in DOMAIN Tail(req.url) : Tail(req.url)[i] \notin Reserved
                   /\ IsTrimOf(PercentDecode(Tail(req.url)), input)
       ELSE Len(requests') <= Len(requests)]_vars

C2_Witness ==
    /\ lastEvent = "submit"
    /\ input = <<Space, "a", Space>>
    /\ requests = <<[type |-> "GET", url |-> <<Endpoint, "a">>]>>

(* C3: when the request fails the loading placeholder has been removed from *)
(* the results region, the error region shows the failure message, the      *)
(* confirm control is hidden and the fetch trigger is enabled again.        *)

C3_FailedStateClearsLoading ==
    lastEvent = "rejected" =>
        /\ ~HasLoading(results)
        /\ error # ""
        /\ Hidden
        /\ ~fetchDisabled

\* what the catch and finally blocks do establish
C3_FailedStateWithoutClear ==
    lastEvent = "rejected" =>
        /\ error # ""
        /\ Hidden
        /\ ~fetchDisabled

(* C4: after a lookup that succeeds the confirm control is visible, after   *)
(* one that fails (empty input or failed request) it is hidden, whatever    *)
(* was displayed before.                                                    *)

C4_ConfirmFollowsOutcome ==
    /\ lastEvent = "resolved" => ~Hidden
    /\ FailedLookup(lastEvent, input) => Hidden

C4_Witness ==
    /\ lastEvent = "resolved"
    /\ confirmDisplay = "inline-flex"
    /\ results = <<NoAttributes>>

(* C5: the results region never shows more than one lookup result, and      *)
(* every submit, with empty input too, leaves nothing of the previous       *)
(* render or of the previous error text.                                    *)

C5_AtMostOneResult ==
    \/ results \in {<<>>, <<LoadingNode>>}
    \/ \E data \in Payloads : results = RenderData(data)

C5_SubmitClearsFirst ==
    lastEvent' = "submit" =>
        /\ results' \in {<<>>, <<LoadingNode>>}
        /\ error' \in {"", "Please enter a fastcode."}

C5_OneResultClearedOnLookup ==
    []C5_AtMostOneResult /\ [][C5_SubmitClearsFirst]_vars

C5_Witness ==
    /\ lastEvent = "submit"
    /\ results = <<LoadingNode>>
    /\ error = ""

(* C6: while a request is in flight the fetch trigger is disabled, and at   *)
(* most one request is in flight.                                           *)

C6_SingleRequestInFlight ==
    /\ requests # <<>> => fetchDisabled
    /\ Len(requests) <= 1

C6_Witness ==
    /\ Len(requests) = 1
    /\ fetchDisabled
    /\ lastEvent = "type"

(* C7: a request is in flight only with the loading placeholder rendered,   *)
(* and the confirm control is never visible over an empty results region or *)
(* over the loading placeholder.                                            *)

C7_RenderPrecedesReveal ==
    /\ requests # <<>> => HasLoading(results)
    /\ ~Hidden => (results # <<>> /\ ~HasLoading(results))

C7_Witness ==
    /\ lastEvent = "resolved"
    /\ ~Hidden
    /\ results = <<NoResults>>

(* C8: a lookup whose request settles leads back to a state in which no     *)
(* request is pending and the fetch trigger is enabled, so that a further   *)
(* submit is accepted.                                                      *)

C8_LookupReturnsToRetryable ==
    (requests # <<>>) ~> (requests = <<>> /\ ~fetchDisabled /\ ENABLED Submit)

C8_Witness ==
    /\ lastEvent \in {"resolved", "rejected"}
    /\ requests = <<>>
    /\ ~fetchDisabled

(* C9: a field read that resolves (initial load, app.activated,             *)
(* ticket.submit.done) leaves the input equal to the value read, the empty  *)
(* string included.                                                         *)

C9_SyncMirrorsField ==
    [][lastEvent' = "readResolved" =>
            \E i \in DOMAIN reads :
                /\ reads' = RemoveAt(reads, i)
                /\ input' = (IF reads[i].value.present
                             THEN reads[i].value.val ELSE <<>>)]_vars

(* C9 as amended: a read that resolves with a non-empty value leaves the    *)
(* input equal to that value; one that resolves with the empty string or    *)
(* with no value leaves the input as it was.                                *)

C9_SyncMirrorsNonEmptyField ==
    [][lastEvent' = "readResolved" =>
            \E i \in DOMAIN reads :
                /\ reads' = RemoveAt(reads, i)
                /\ LET v == reads[i].value
                   IN  IF v.present /\ v.val # <<>>
                       THEN input' = v.val
                       ELSE input' = input]_vars

C9_Witness ==
    /\ lastEvent = "readResolved"
    /\ field = Present(<<"a", "&">>)
    /\ input = <<"a", "&">>
    /\ confirmDisplay = "inline-flex"

(* C10: a field-change notification whose trimmed value equals the current  *)
(* input changes neither the input nor the results region, the error        *)
(* region, the confirm control or the fetch trigger.                        *)

C10_IdenticalChangeIsNoOp ==
    [][(/\ lastEvent' = "changed"
        /\ IsTrimOf(input, IF field'.present THEN field'.val ELSE <<>>))
            => UNCHANGED ui]_vars

C10_Witness ==
    /\ lastEvent = "changed"
    /\ zafBound
    /\ field = Present(<<Space, "a", Space>>)
    /\ input = <<"a">>
    /\ confirmDisplay = "inline-flex"

(* C11: the confirm reset leaves the input, the results region and the     *)
(* error region empty and the confirm control hidden, and a second reset    *)
(* applied to the state it leaves changes nothing.                          *)

C11_ResetClearsIdempotently ==
    [][lastEvent' = "confirm" =>
            /\ input' = <<>>
            /\ results' = <<>>
            /\ error' = ""
            /\ confirmDisplay' = "none"
            /\ ConfirmReset(UiState)' = UiState']_vars

C11_Witness ==
    /\ lastEvent = "confirm"
    /\ input = <<>>
    /\ results = <<>>
    /\ Hidden
    /\ ~fetchDisabled

(* C12: a field read that fails shows nothing to the user: the input, the   *)
(* results region, the error region, the confirm control and the fetch      *)
(* trigger stay as they were, no request is issued, and the host listeners  *)
(* are registered afterwards so that later events are heard.                *)

C12_ReadFailureIsSilent ==
    [][lastEvent' = "readRejected" =>
            /\ UNCHANGED ui
            /\ UNCHANGED requests
            /\ zafBound']_vars

C12_Witness ==
    /\ lastEvent = "readRejected"
    /\ variant = "part_000"
    /\ zafBound
    /\ input = <<"a">>
    /\ error = ""

(* C13: a change of the input while a request is in flight (a field-change  *)
(* notification, a sync, the operator typing) leaves the request pending,   *)
(* and its response is rendered and the confirm control revealed whatever   *)
(* the input then holds; hence the displayed result may belong to a         *)
(* fastcode other than the one in the input.                                *)

C13_NoCancellation ==
    [][/\ lastEvent' \in {"changed", "readResolved", "readRejected", "activated",
                          "submitDone", "type"} => requests' = requests
       /\ lastEvent' = "resolved" =>
            /\ Len(requests') = Len(requests) - 1
            /\ results' # <<>>
            /\ ~HasLoading(results')
            /\ confirmDisplay' # "none"]_vars

\* the result of the lookup of "a" under an input the host changed to "a&"
C13_Witness ==
    /\ lastEvent = "resolved"
    /\ zafBound
    /\ field = Present(<<"a", "&">>)
    /\ input = <<"a", "&">>
    /\ displayed.shown
    /\ PercentDecode(Tail(displayed.request.url)) = <<"a">>
    /\ results # <<>>
    /\ ~HasLoading(results)
    /\ ~Hidden

(* C14: while the response displayed is an empty list, the results region   *)
(* holds exactly the "No results." placeholder and no card, and the         *)
(* confirm control is revealed.                                             *)

C14_EmptyListShowsNoResults ==
    (displayed.shown /\ displayed.data.t = "arr" /\ displayed.data.items = <<>>) =>
        /\ Len(results) = 1
        /\ results[1].class = "no-data-message"
        /\ results[1].children = <<[text |-> "No results."]>>
        /\ CountCards(results) = 0
        /\ ~Hidden

C14_Witness ==
    /\ lastEvent = "resolved"
    /\ displayed.shown
    /\ displayed.data = [t |-> "arr", items |-> <<>>]
    /\ Len(results) = 1

(* C15: the record renderer gives the single "No attributes to display."    *)
(* placeholder for an absent value and for a non-array object without keys, *)
(* and otherwise one card per own key, in enumeration order, whose value    *)
(* region is the indented serialized text of an array or object and the     *)
(* plain text of anything else.                                             *)

\* the own keys of a value with their values, in enumeration order
KeysOf(v) ==
    IF v.t = "obj" THEN v.kv
    ELSE IF v.t = "arr" THEN [i \in 1..Len(v.items) |-> <<ToString(i - 1), v.items[i]>>]
    ELSE <<>>

IsPlaceholder(node) ==
    /\ node.class = "no-data-message"
    /\ node.children = <<[text |-> "No attributes to display."]>>

IsCardsOf(node, v) ==
    /\ node.class = "attributes-container"
    /\ Len(node.children) = Len(KeysOf(v))
    /\ \A i \in DOMAIN node.children :
          LET card  == node.children[i]
              value == KeysOf(v)[i][2]
          IN  /\ card.class = "attribute-card"
              /\ Len(card.children) = 2
              /\ TextOf(card.children[1]) = KeysOf(v)[i][1]
              /\ IF value.t \in {"arr", "obj"}
                 THEN TextOf(card.children[2]) = Stringify(value, "")
                 ELSE TextOf(card.children[2]) =
                        (IF value.t = "null" THEN "null" ELSE value.v)

\* the values the renderer was given for the render on display, each with its node
RenderedRecords ==
    IF ~displayed.shown THEN {}
    ELSE IF displayed.data.t = "obj" THEN {<<displayed.data, results[1]>>}
    ELSE IF displayed.data.t = "arr"
    THEN {<<displayed.data.items[i], results[2 * i]>> : i \in DOMAIN displayed.data.items}
    ELSE {}

\* 0, the empty string and false: values that are present and falsy
FalsyScalar(v) ==
    \/ v.t = "num" /\ v.v = "0"
    \/ v.t = "str" /\ v.v = ""
    \/ v.t = "bool" /\ v.v = "false"

C15_PlaceholderOnlyWhenAbsentOrEmpty ==
    \A p \in RenderedRecords :
        IF p[1].t = "null" \/ (p[1].t = "obj" /\ p[1].kv = <<>>)
        THEN IsPlaceholder(p[2])
        ELSE IsCardsOf(p[2], p[1])

(* C15 as amended: the placeholder is also what the renderer gives for the  *)
(* falsy scalars 0, "" and false; every other value gets one card per own   *)
(* key as stated.                                                           *)

C15_PlaceholderWhenFalsyOrEmpty ==
    \A p \in RenderedRecords :
        IF p[1].t = "null" \/ FalsyScalar(p[1]) \/ (p[1].t = "obj" /\ p[1].kv = <<>>)
        THEN IsPlaceholder(p[2])
        ELSE IsCardsOf(p[2], p[1])

\* the record {"a":"1","b":{"c":2}} on display
C15_Witness ==
    /\ displayed.shown
    /\ displayed.data.t = "obj"
    /\ Len(displayed.data.kv) = 2
    /\ Len(results[1].children) = 2
    /\ TextOf(results[1].children[1].children[2]) = "1"
    /\ TextOf(results[1].children[2].children[2]) = "{\n  \"c\": 2\n}"

(* C16: the host-driven triggers (the initial read, app.activated,          *)
(* ticket.submit.done, the field-change notification) leave the results     *)
(* region, the error region, the confirm control, the fetch trigger and the *)
(* pending requests as they were; a request is issued only by a submit.     *)

HostEvents == {"activated", "submitDone", "changed", "readResolved", "readRejected"}

C16_HostTriggersOnlyTouchInput ==
    [][/\ lastEvent' \in HostEvents =>
            UNCHANGED <<results, error, confirmDisplay, fetchDisabled, requests>>
       /\ Len(requests') > Len(requests) => lastEvent' = "submit"]_vars

\* the initial read has filled the input and nothing else
C16_Witness ==
    /\ lastEvent = "readResolved"
    /\ field = Present(<<"a">>)
    /\ input = <<"a">>
    /\ reads = <<>>
    /\ requests = <<>>
    /\ results = <<>>
    /\ error = ""

(* C17: while the confirm control is visible no request is in flight, the   *)
(* error region is empty and the results region holds a rendered result;    *)
(* a rendered result and an error message are never shown together.         *)

C17_ConfirmOnlyOverCleanResult ==
    /\ ~Hidden =>
        /\ requests = <<>>
        /\ error = ""
        /\ results # <<>>
        /\ ~HasLoading(results)
        /\ displayed.shown
    /\ (results # <<>> /\ ~HasLoading(results)) => error = ""

C17_Witness ==
    /\ ~Hidden
    /\ lastEvent = "changed"
    /\ displayed.shown
    /\ CountCards(results) = 2
    /\ error = ""
    /\ ~fetchDisabled

(* C18: once a field-change notification has written v into the input, a    *)
(* sync whose field read was already pending, and which read an older       *)
(* value of the field, does not overwrite v when it resolves.               *)

\* read i was pending when the notification of the last step wrote the input,
\* resolves in this step, and carries a value the field no longer holds
StaleSyncResolves(i) ==
    /\ lastEvent = "changed"
    /\ zafBound
    /\ reads[i].kind = "sync"
    /\ reads[i].value # field
    /\ lastEvent' = "readResolved"
    /\ reads' = RemoveAt(reads, i)

C18_InputNeverRegresses ==
    [][\A i \in DOMAIN reads : StaleSyncResolves(i) => input' = input]_vars

\* what does hold: the stale read wins only when it is non-empty and differs
C18_StaleReadOverwritesWhenNonEmpty ==
    [][\A i \in DOMAIN reads :
          StaleSyncResolves(i) =>
              input' = (IF reads[i].value.present /\ reads[i].value.val # <<>>
                        THEN reads[i].value.val ELSE input)]_vars

====
